---- MODULE Spec2Model ----
(***************************************************************************)
(* Model of crates/db_views_actor/src/person_view.rs: the read-only        *)
(* PersonView queries (read, is_admin, admins, banned, PersonQuery::list)  *)
(* over the person, person_aggregates and local_user tables.               *)
(*                                                                         *)
(* Option<T> and SQL NULL are modelled as sequences of length 0 or 1:      *)
(* None / NULL is << >>, Some(x) is <<x>>.  Strings are sequences of       *)
(* one-character strings so that pattern matching can be computed.         *)
(***************************************************************************)
EXTENDS Integers, Sequences, FiniteSets, TLC

VARIABLES person, person_aggregates, local_user, clock,
          pool, pc, req, res, holds, acquired, queries, sort_key

db == <<person, person_aggregates, local_user, clock>>
calls == <<pool, pc, req, res, holds, acquired, queries, sort_key>>
vars == <<person, person_aggregates, local_user, clock,
          pool, pc, req, res, holds, acquired, queries, sort_key>>

(* ------------------------------ bounds -------------------------------- *)
MaxPersons == 2
MaxClock == 2
PoolSize == 1

PersonIds == 1 .. MaxPersons
\* ids a caller may ask for: every stored person and one id with no row
RequestIds == 1 .. (MaxPersons + 1)
Callers == {"c1", "c2"}

None == << >>
Some(x) == <<x>>

(* ------------------------------ strings ------------------------------- *)
Lower(ch) == IF ch = "A" THEN "a" ELSE IF ch = "B" THEN "b" ELSE ch

LowerStr(s) == [i \in 1 .. Len(s) |-> Lower(s[i])]

\* SQL LIKE: % is any run of characters, _ any one character, and a
\* backslash makes the next pattern character literal.
RECURSIVE LikeMatch(_, _)
LikeMatch(pat, s) ==
  IF pat = << >> THEN s = << >>
  ELSE IF Head(pat) = "%"
    THEN LikeMatch(Tail(pat), s) \/ (s # << >> /\ LikeMatch(pat, Tail(s)))
  ELSE IF Head(pat) = "_"
    THEN s # << >> /\ LikeMatch(Tail(pat), Tail(s))
  ELSE IF Head(pat) = "\\"
    THEN /\ Len(pat) >= 2
         /\ s # << >>
         /\ pat[2] = Head(s)
         /\ LikeMatch(Tail(Tail(pat)), Tail(s))
  ELSE s # << >> /\ Head(pat) = Head(s) /\ LikeMatch(Tail(pat), Tail(s))

\* column ILIKE pattern; a NULL column yields NULL, which a WHERE clause
\* treats as not matching
ilike(col, pat) ==
  /\ col # None
  /\ LikeMatch(LowerStr(pat), LowerStr(col[1]))

RECURSIVE EscapeLike(_)
EscapeLike(s) ==
  IF s = << >> THEN << >>
  ELSE IF Head(s) \in {"%", "_", "\\"}
    THEN <<"\\", Head(s)>> \o EscapeLike(Tail(s))
  ELSE <<Head(s)>> \o EscapeLike(Tail(s))

\* escapes the pattern-special characters of the raw term and wraps it
\* in wildcards
fuzzy_search(q) == <<"%">> \o EscapeLike(q) \o <<"%">>

(* ------------------------------ results ------------------------------- *)
\* Result<T, Error>: tag is "Ok" or the error, val the returned rows (one
\* row for read, one boolean for is_admin)
Ok(v) == [tag |-> "Ok", val |-> v]
Err(e) == [tag |-> e, val |-> << >>]
NoResult == [tag |-> "Pending", val |-> << >>]

\* what running a closure leaves behind: its result, the number of
\* statements it sent over the connection, and the local `sort`
Outcome(r, n, k) == [res |-> r, queried |-> n, key |-> k]

(* --------------------------- sort translator -------------------------- *)
\* SortType: the variants the match names and some of those it does not
NamedSortTypes ==
  {"Active", "Hot", "Controversial", "New", "NewComments", "MostComments", "Old"}
OtherSortTypes == {"TopDay", "TopAll", "Scaled"}
SortTypes == NamedSortTypes \cup OtherSortTypes

PersonSortTypes ==
  {"New", "Old", "MostComments", "CommentScore", "PostScore", "PostCount"}

post_to_person_sort_type_post_score(sort) ==
  IF sort \in {"Active", "Hot", "Controversial"} THEN "CommentScore"
  ELSE IF sort \in {"New", "NewComments"} THEN "New"
  ELSE IF sort = "MostComments" THEN "MostComments"
  ELSE IF sort = "Old" THEN "Old"
  ELSE "PostScore"

post_to_person_sort_type_old_as_new(sort) ==
  IF sort \in {"Active", "Hot", "Controversial"} THEN "CommentScore"
  ELSE IF sort \in {"New", "NewComments", "Old"} THEN "New"
  ELSE IF sort = "MostComments" THEN "MostComments"
  ELSE "CommentScore"

post_to_person_sort_type(sort) ==
  IF sort \in {"Active", "Hot", "Controversial"} THEN "CommentScore"
  ELSE IF sort \in {"New", "NewComments"} THEN "New"
  ELSE IF sort = "MostComments" THEN "MostComments"
  ELSE IF sort = "Old" THEN "Old"
  ELSE "CommentScore"

(* ------------------------------ row source ---------------------------- *)
\* the row selected for person p: person columns and aggregate columns
PersonViewOf(p) ==
  [id |-> p, person |-> person[p], counts |-> person_aggregates[p][1]]

all_joins_inner_local_user(ids) ==
  {p \in ids : person_aggregates[p] # None /\ local_user[p] # None}

\* inner join with person_aggregates, left join with local_user: a person
\* without an aggregate row yields no row, one without a local_user row
\* yields a row whose local_user columns are NULL
all_joins(ids) == {p \in ids : person_aggregates[p] # None}

\* person::table.find(person_id)
find(person_id) == {p \in PersonIds : p = person_id}

now == clock

\* the ORDER BY of each person sort key, as a key to sort ascending by
OrderKey(key, v) ==
  CASE key = "New" -> 0 - v.person.published
    [] key = "Old" -> v.person.published
    [] key = "MostComments" -> 0 - v.counts.comment_count
    [] key = "CommentScore" -> 0 - v.counts.comment_score
    [] key = "PostScore" -> 0 - v.counts.post_score
    [] key = "PostCount" -> 0 - v.counts.post_count

Views(ids) == {PersonViewOf(p) : p \in ids}

\* the ORDER BY of a composed query as a key to sort ascending by: a
\* person sort key, person.published, or no ORDER BY at all
SortBy(order, v) ==
  CASE order = "Unordered" -> 0
    [] order = "Published" -> v.person.published
    [] OTHER -> OrderKey(order, v)

\* every order in which the rows of S can come back from a query with
\* that ORDER BY; rows with equal keys come back in any order
Orderings(S, order) ==
  {s \in [1 .. Cardinality(S) -> S] :
     /\ \A i, j \in 1 .. Cardinality(S) : i # j => s[i] # s[j]
     /\ \A i, j \in 1 .. Cardinality(S) :
          i < j => SortBy(order, s[i]) <= SortBy(order, s[j])}

(* ------------------------------ pagination ---------------------------- *)
FETCH_LIMIT_DEFAULT == 10
FETCH_LIMIT_MAX == 50

\* (page, limit) -> Ok (limit, offset) or the rejection of the pair
limit_and_offset(page, limit) ==
  IF page # None /\ page[1] < 1 THEN [ok |-> FALSE, limit |-> 0, offset |-> 0]
  ELSE IF limit # None /\ (limit[1] < 1 \/ limit[1] > FETCH_LIMIT_MAX)
    THEN [ok |-> FALSE, limit |-> 0, offset |-> 0]
  ELSE LET pg == IF page = None THEN 1 ELSE page[1]
           lim == IF limit = None THEN FETCH_LIMIT_DEFAULT ELSE limit[1]
       IN [ok |-> TRUE, limit |-> lim, offset |-> lim * (pg - 1)]

Min(a, b) == IF a <= b THEN a ELSE b

limit_offset_swapped(rows, limit, offset) ==
  SubSeq(rows, limit + 1, Min(Len(rows), limit + offset))

\* query.limit(limit).offset(offset) applied to the sorted rows
limit_offset(rows, limit, offset) ==
  SubSeq(rows, offset + 1, Min(Len(rows), offset + limit))

(* ------------------------------ closures ------------------------------ *)
\* a request: the operation called and its arguments (person_id for read
\* and is_admin; the PersonQuery fields for list)
Request(op, person_id, sort, search_term, page, limit) ==
  [op |-> op, person_id |-> person_id, sort |-> sort,
   search_term |-> search_term, page |-> page, limit |-> limit]

\* the first row of a single-row read, or NotFound
first(rows) ==
  IF rows = {} THEN Err("NotFound") ELSE Ok(<<CHOOSE v \in rows : TRUE>>)

\* the read closure
read(person_id) ==
  {Outcome(first(Views(all_joins(find(person_id)))), 1, None)}

is_admin_through_all_joins(person_id) ==
  {Outcome(first({local_user[p][1].admin :
                    p \in {q \in all_joins(find(person_id)) : local_user[q] # None}}),
           1, None)}

\* person inner join local_user, filtered by id, projecting admin
is_admin(person_id) ==
  {Outcome(first({local_user[p][1].admin :
                    p \in {q \in find(person_id) : local_user[q] # None}}),
           1, None)}

admins_filter_with_deleted(p) ==
  local_user[p] # None /\ local_user[p][1].admin = TRUE

\* ListMode::Admins: local_user.admin = true and person.deleted = false
admins_filter(p) ==
  /\ local_user[p] # None /\ local_user[p][1].admin = TRUE
  /\ person[p].deleted = FALSE

banned_filter_ignoring_expiry(p) ==
  /\ person[p].banned = TRUE
  /\ person[p].deleted = FALSE

\* ListMode::Banned: banned and (ban_expires is null or later than now),
\* and not deleted
banned_filter(p) ==
  /\ person[p].banned = TRUE
     /\ (person[p].ban_expires = None \/ person[p].ban_expires[1] > now)
  /\ person[p].deleted = FALSE

search_filter_name_only(p, search_term) ==
  search_term # None =>
    ilike(Some(person[p].name), fuzzy_search(search_term[1]))

\* ListMode::Query: name ILIKE searcher OR display_name ILIKE searcher when
\* a search term is given, no filter otherwise
search_filter(p, search_term) ==
  search_term # None =>
    \/ ilike(Some(person[p].name), fuzzy_search(search_term[1]))
    \/ ilike(person[p].display_name, fuzzy_search(search_term[1]))

paginate_or_default(options, sorted, key) ==
  LET lo == limit_and_offset(options.page, options.limit)
  IN IF lo.ok
       THEN Outcome(Ok(limit_offset(sorted, lo.limit, lo.offset)), 1, Some(key))
       ELSE Outcome(Ok(limit_offset(sorted, FETCH_LIMIT_DEFAULT, 0)), 1, Some(key))

\* limit_and_offset(page, limit)? then limit/offset and load: a rejected
\* pair returns the error before any statement is sent
paginate(options, sorted, key) ==
  LET lo == limit_and_offset(options.page, options.limit)
  IN IF lo.ok
       THEN Outcome(Ok(limit_offset(sorted, lo.limit, lo.offset)), 1, Some(key))
       ELSE Outcome(Err("InvalidPagination"), 0, Some(key))

\* the list closure, by mode
list(options) ==
  CASE options.op = "admins" ->
         {Outcome(Ok(s), 1, None) :
            s \in Orderings(Views({p \in all_joins(PersonIds) : admins_filter(p)}),
                            "Published")}
    [] options.op = "banned" ->
         {Outcome(Ok(s), 1, None) :
            s \in Orderings(Views({p \in all_joins(PersonIds) : banned_filter(p)}),
                            "Unordered")}
    [] options.op = "list" ->
         LET key == IF options.sort = None THEN "CommentScore"
                    ELSE post_to_person_sort_type(options.sort[1])
             filtered == {p \in all_joins(PersonIds) :
                            search_filter(p, options.search_term)}
         IN {paginate(options, s, key) : s \in Orderings(Views(filtered), key)}

\* what a call can produce once it holds a connection
Outcomes(r) ==
  CASE r.op = "read" -> read(r.person_id)
    [] r.op = "is_admin" -> is_admin(r.person_id)
    [] OTHER -> list(r)

(* --------------------------- external mutations ------------------------ *)
ExpiryTimes == 1 .. (MaxClock - 1)

Ban(p) ==
  /\ person[p].banned = FALSE
  /\ person' = [person EXCEPT ![p].banned = TRUE]
  /\ UNCHANGED <<person_aggregates, local_user, clock, calls>>

Unban(p) ==
  /\ person[p].banned = TRUE
  /\ person' = [person EXCEPT ![p].banned = FALSE]
  /\ UNCHANGED <<person_aggregates, local_user, clock, calls>>

SetBanExpires(p, e) ==
  /\ person[p].ban_expires # e
  /\ person' = [person EXCEPT ![p].ban_expires = e]
  /\ UNCHANGED <<person_aggregates, local_user, clock, calls>>

SoftDelete(p) ==
  /\ person[p].deleted = FALSE
  /\ person' = [person EXCEPT ![p].deleted = TRUE]
  /\ UNCHANGED <<person_aggregates, local_user, clock, calls>>

Tick ==
  /\ clock < MaxClock
  /\ clock' = clock + 1
  /\ UNCHANGED <<person, person_aggregates, local_user, calls>>

(* -------------------------------- calls -------------------------------- *)
\* a caller enters one of the five operations
Call(c, r) ==
  /\ pc[c] \in {"idle", "done"}
  /\ pc' = [pc EXCEPT ![c] = "called"]
  /\ req' = [req EXCEPT ![c] = r]
  /\ res' = [res EXCEPT ![c] = NoResult]
  /\ acquired' = [acquired EXCEPT ![c] = 0]
  /\ queries' = [queries EXCEPT ![c] = 0]
  /\ sort_key' = [sort_key EXCEPT ![c] = None]
  /\ UNCHANGED <<db, pool, holds>>

\* get_conn(pool) hands out a free connection
GetConn(c) ==
  /\ pc[c] = "called"
  /\ pool > 0
  /\ pool' = pool - 1
  /\ holds' = [holds EXCEPT ![c] = TRUE]
  /\ acquired' = [acquired EXCEPT ![c] = acquired[c] + 1]
  /\ pc' = [pc EXCEPT ![c] = "conn"]
  /\ UNCHANGED <<db, req, res, queries, sort_key>>

\* get_conn(pool) fails (no connection in time, backend unreachable) and
\* the error is returned by `?`
GetConnFail(c) ==
  /\ pc[c] = "called"
  /\ res' = [res EXCEPT ![c] = Err("StorageError")]
  /\ pc' = [pc EXCEPT ![c] = "done"]
  /\ UNCHANGED <<db, pool, req, holds, acquired, queries, sort_key>>

\* the closure runs on the connection: it composes the query and sends it,
\* or returns early on a rejected page/limit
Run(c) ==
  /\ pc[c] = "conn"
  /\ \E o \in Outcomes(req[c]) :
       /\ res' = [res EXCEPT ![c] = o.res]
       /\ queries' = [queries EXCEPT ![c] = queries[c] + o.queried]
       /\ sort_key' = [sort_key EXCEPT ![c] = o.key]
  /\ pc' = [pc EXCEPT ![c] = "ran"]
  /\ UNCHANGED <<db, pool, req, holds, acquired>>

\* the statement is sent and the storage engine fails it
RunFail(c) ==
  /\ pc[c] = "conn"
  /\ \E o \in Outcomes(req[c]) :
       /\ o.queried = 1
       /\ res' = [res EXCEPT ![c] = Err("StorageError")]
       /\ queries' = [queries EXCEPT ![c] = queries[c] + 1]
       /\ sort_key' = [sort_key EXCEPT ![c] = o.key]
  /\ pc' = [pc EXCEPT ![c] = "ran"]
  /\ UNCHANGED <<db, pool, req, holds, acquired>>

Return_keeping_conn_on_error(c) ==
  /\ pc[c] = "ran"
  /\ pool' = IF res[c].tag = "InvalidPagination" THEN pool ELSE pool + 1
  /\ holds' = [holds EXCEPT ![c] = (res[c].tag = "InvalidPagination")]
  /\ pc' = [pc EXCEPT ![c] = "done"]
  /\ UNCHANGED <<db, req, res, acquired, queries, sort_key>>

\* the closure ends: the connection it owns is dropped, which hands it
\* back to the pool, and the result reaches the caller
Return(c) ==
  /\ pc[c] = "ran"
  /\ pool' = pool + 1
  /\ holds' = [holds EXCEPT ![c] = FALSE]
  /\ pc' = [pc EXCEPT ![c] = "done"]
  /\ UNCHANGED <<db, req, res, acquired, queries, sort_key>>

CallStep(c) ==
  \/ GetConn(c)
  \/ GetConnFail(c)
  \/ Run(c)
  \/ RunFail(c)
  \/ Return(c)

(* ------------------------------ initial states ------------------------- *)
Counts(cc, cs, pcnt, ps) ==
  [comment_count |-> cc, comment_score |-> cs, post_count |-> pcnt, post_score |-> ps]

PersonRow(name, display_name, published, deleted, banned, ban_expires) ==
  [name |-> name, display_name |-> display_name, published |-> published,
   deleted |-> deleted, banned |-> banned, ban_expires |-> ban_expires]

\* a stored person: its person row, its aggregate row if any, its
\* local_user row if any
Profile(row, agg, lu) == [row |-> row, agg |-> agg, lu |-> lu]

LocalUser(admin) == [admin |-> admin]

\* the tables hold one person per id, each drawn from Profiles; no call is
\* in progress and every connection is in the pool
InitWith(Profiles) ==
  /\ \E f \in [PersonIds -> Profiles] :
       /\ person = [p \in PersonIds |-> f[p].row]
       /\ person_aggregates = [p \in PersonIds |-> f[p].agg]
       /\ local_user = [p \in PersonIds |-> f[p].lu]
  /\ clock = 0
  /\ pool = PoolSize
  /\ pc = [c \in Callers |-> "idle"]
  /\ req = [c \in Callers |-> Request("read", 1, None, None, None, None)]
  /\ res = [c \in Callers |-> NoResult]
  /\ holds = [c \in Callers |-> FALSE]
  /\ acquired = [c \in Callers |-> 0]
  /\ queries = [c \in Callers |-> 0]
  /\ sort_key = [c \in Callers |-> None]

\* persons that start unbanned and not deleted, with or without an
\* aggregate row
BanProfiles ==
  {Profile(PersonRow(<<"a">>, None, 1, FALSE, FALSE, None), agg, None) :
     agg \in {None, Some(Counts(0, 0, 0, 0))}}

\* local and remote persons, admins or not, deleted or not, with or
\* without an aggregate row, and banned admins
ViewProfiles ==
  {Profile(PersonRow(<<"a">>, None, published, deleted, FALSE, None), agg, lu) :
     published \in {1, 2}, deleted \in BOOLEAN,
     agg \in {None, Some(Counts(1, 2, 3, 4))},
     lu \in {None, Some(LocalUser(TRUE)), Some(LocalUser(FALSE))}}
  \cup
  {Profile(PersonRow(<<"a">>, None, 1, FALSE, TRUE, None), agg, Some(LocalUser(TRUE))) :
     agg \in {None, Some(Counts(1, 2, 3, 4))}}

\* persons that differ in name, display name, creation time and counters
QueryProfiles ==
  {Profile(PersonRow(<<"a", "b">>, None, 1, FALSE, FALSE, None),
           Some(Counts(1, 2, 2, 1)), None),
   Profile(PersonRow(<<"A">>, Some(<<"b", "%">>), 2, FALSE, FALSE, None),
           Some(Counts(2, 1, 1, 2)), Some(LocalUser(TRUE))),
   Profile(PersonRow(<<"_">>, Some(<< >>), 1, FALSE, TRUE, None),
           Some(Counts(1, 2, 1, 3)), None),
   Profile(PersonRow(<<"a", "_", "b">>, Some(<<"a", "\\">>), 3, FALSE, FALSE, None),
           Some(Counts(3, 3, 3, 0)), None),
   Profile(PersonRow(<<"b">>, Some(<<"B", "a">>), 2, TRUE, TRUE, None),
           Some(Counts(2, 0, 0, 2)), Some(LocalUser(FALSE))),
   Profile(PersonRow(<<"B">>, Some(<<"a">>), 1, FALSE, FALSE, None),
           None, None)}

PoolProfiles ==
  {Profile(PersonRow(<<"a">>, None, 1, FALSE, TRUE, None),
           Some(Counts(1, 1, 1, 1)), Some(LocalUser(TRUE))),
   Profile(PersonRow(<<"b">>, None, 2, FALSE, FALSE, None), None, None)}

(* -------------------------------- requests ----------------------------- *)
SearchTerms ==
  {<< >>, <<"a">>, <<"B">>, <<"a", "b">>, <<"%">>, <<"_">>, <<"\\">>,
   <<"b", "%">>, <<"a", "_">>}

Pages == {None, Some(0), Some(1), Some(2), Some(3)}
Limits == {None, Some(0), Some(1), Some(2),
           Some(FETCH_LIMIT_MAX), Some(FETCH_LIMIT_MAX + 1)}

PersonQuery(sort, search_term, page, limit) ==
  Request("list", 0, sort, search_term, page, limit)

Admins == Request("admins", 0, None, None, None, None)
Banned == Request("banned", 0, None, None, None, None)
Read(id) == Request("read", id, None, None, None, None)
IsAdmin(id) == Request("is_admin", id, None, None, None, None)

BanRequests == {Banned}

ViewRequests ==
  {Admins} \cup {Read(id) : id \in RequestIds} \cup {IsAdmin(id) : id \in RequestIds}

QueryRequests ==
  {PersonQuery(sort, None, None, None) : sort \in {None} \cup {Some(t) : t \in SortTypes}}
  \cup {PersonQuery(None, Some(t), None, None) : t \in SearchTerms}
  \cup {PersonQuery(sort, None, page, limit) :
          sort \in {None, Some("Old")}, page \in Pages, limit \in Limits}
  \cup {PersonQuery(Some("New"), Some(<<"a">>), Some(1), Some(1)),
        PersonQuery(Some("MostComments"), Some(<<"b">>), Some(2), Some(1)),
        Admins, Banned}

PoolRequests ==
  {Admins, Banned, Read(1), IsAdmin(1), Read(MaxPersons + 1),
   PersonQuery(None, None, None, None), PersonQuery(None, None, None, Some(0))}

(* ----------------------------- specifications -------------------------- *)
\* bans, unbans, expiry changes, soft deletes and the clock, with one
\* caller listing the banned persons.  The rows a statement has returned
\* no longer depend on the tables, so the tables and the clock change up
\* to the moment the statement runs and again once the caller has asked
\* anew; every table contents and clock value is met by a statement.
Init == InitWith(BanProfiles)

RowsPending == pc["c1"] \in {"ran", "done"}

Next ==
  \/ ~RowsPending /\ \E p \in PersonIds : Ban(p)
  \/ ~RowsPending /\ \E p \in PersonIds : Unban(p)
  \/ ~RowsPending /\ \E p \in PersonIds :
       \E e \in {None} \cup {Some(t) : t \in ExpiryTimes} : SetBanExpires(p, e)
  \/ ~RowsPending /\ \E p \in PersonIds : SoftDelete(p)
  \/ ~RowsPending /\ Tick
  \/ \E r \in BanRequests : Call("c1", r)
  \/ GetConn("c1")
  \/ GetConnFail("c1")
  \/ Run("c1")
  \/ RunFail("c1")
  \/ Return("c1")

Spec == Init /\ [][Next]_vars

\* one caller reading single persons and listing the admins
InitView == InitWith(ViewProfiles)

NextView ==
  \/ \E r \in ViewRequests : Call("c1", r)
  \/ GetConn("c1")
  \/ GetConnFail("c1")
  \/ Run("c1")
  \/ RunFail("c1")
  \/ Return("c1")

SpecView == InitView /\ [][NextView]_vars

\* one caller running PersonQuery::list
InitQuery == InitWith(QueryProfiles)

NextQuery ==
  \/ \E r \in QueryRequests : Call("c1", r)
  \/ GetConn("c1")
  \/ GetConnFail("c1")
  \/ Run("c1")
  \/ RunFail("c1")
  \/ Return("c1")

SpecQuery == InitQuery /\ [][NextQuery]_vars

\* concurrent callers sharing the pool
InitPool == InitWith(PoolProfiles)

NextPool ==
  \/ \E c \in Callers : \E r \in PoolRequests : Call(c, r)
  \/ \E c \in Callers : GetConn(c)
  \/ \E c \in Callers : GetConnFail(c)
  \/ \E c \in Callers : Run(c)
  \/ \E c \in Callers : RunFail(c)
  \/ \E c \in Callers : Return(c)

SpecPool == InitPool /\ [][NextPool]_vars

TypeOK ==
  /\ pool \in 0 .. PoolSize
  /\ clock \in 0 .. MaxClock
  /\ \A c \in Callers : pc[c] \in {"idle", "called", "conn", "ran", "done"}

(* ------------------------------ vocabulary ----------------------------- *)
RowIds(rows) == {rows[i].id : i \in 1 .. Len(rows)}

NoDuplicates(rows) ==
  \A i, j \in 1 .. Len(rows) : i # j => rows[i].id # rows[j].id

\* each returned row carries the stored person and aggregate columns
RowsAreStored(rows) ==
  \A i \in 1 .. Len(rows) :
    /\ rows[i].id \in PersonIds
    /\ person_aggregates[rows[i].id] # None
    /\ rows[i].person = person[rows[i].id]
    /\ rows[i].counts = person_aggregates[rows[i].id][1]

HasAggregates(p) == person_aggregates[p] # None

\* the closure of caller c has run and its result is in res[c]
Ran(c, op) == pc[c] \in {"ran", "done"} /\ acquired[c] = 1 /\ req[c].op = op

\* caller c's closure runs in this step and returns rows
Returns(c, op) ==
  /\ pc[c] = "conn" /\ pc'[c] = "ran"
  /\ req[c].op = op
  /\ res'[c].tag = "Ok"

(* -------------------------------- C1 ----------------------------------- *)
\* persons whose ban is in force at the current clock value
ActiveBans ==
  {p \in PersonIds :
     /\ person[p].deleted = FALSE
     /\ person[p].banned = TRUE
     /\ (person[p].ban_expires = None \/ person[p].ban_expires[1] > clock)}

\* C1 as stated: whenever banned() runs, in any state reached by bans,
\* unbans, expiry changes, soft deletes and clock advances, it returns
\* exactly the non-deleted banned persons whose ban_expires is null or
\* strictly later than the clock at that moment.
C1_AsStated ==
  [][\A c \in Callers :
       Returns(c, "banned") => RowIds(res'[c].val) = ActiveBans]_vars

\* C1 amended: banned() returns exactly the persons of that set that have
\* an aggregate row, each once, with their stored columns; a banned person
\* whose ban_expires is not later than the clock is never returned.
C1_BannedActiveWithAggregates ==
  [][\A c \in Callers :
       Returns(c, "banned") =>
         /\ RowIds(res'[c].val) = {p \in ActiveBans : HasAggregates(p)}
         /\ NoDuplicates(res'[c].val)
         /\ RowsAreStored(res'[c].val)
         /\ \A i \in 1 .. Len(res'[c].val) :
              LET e == res'[c].val[i].person.ban_expires
              IN e = None \/ e[1] > clock]_vars

\* banned() has returned a person while another person with an aggregate
\* row is banned with an expiry that is not in the future
C1_Witness ==
  \E c \in Callers :
    /\ pc[c] = "ran" /\ req[c].op = "banned" /\ res[c].tag = "Ok"
    /\ res[c].val # << >>
    /\ RowIds(res[c].val) = {p \in ActiveBans : HasAggregates(p)}
    /\ \E p \in PersonIds :
         /\ HasAggregates(p) /\ person[p].banned /\ ~person[p].deleted
         /\ person[p].ban_expires # None /\ person[p].ban_expires[1] <= clock

(* -------------------------------- C2 ----------------------------------- *)
LocalAdmins ==
  {p \in PersonIds :
     /\ person[p].deleted = FALSE
     /\ local_user[p] # None /\ local_user[p][1].admin = TRUE}

OldestFirst(rows) ==
  \A i, j \in 1 .. Len(rows) :
    i < j => rows[i].person.published <= rows[j].person.published

\* C2 as stated: admins() returns exactly the non-deleted persons whose
\* local account has admin = true, oldest first, all of them.
C2_AsStated ==
  \A c \in Callers :
    (Ran(c, "admins") /\ res[c].tag = "Ok") =>
      /\ RowIds(res[c].val) = LocalAdmins
      /\ OldestFirst(res[c].val)

\* C2 amended: admins() returns exactly the non-deleted persons with an
\* aggregate row whose local account has admin = true, each once, ordered
\* ascending by creation time, the whole set; remote persons and
\* non-admins never appear.
C2_AdminsWithAggregates ==
  \A c \in Callers :
    (Ran(c, "admins") /\ res[c].tag = "Ok") =>
      /\ RowIds(res[c].val) = {p \in LocalAdmins : HasAggregates(p)}
      /\ NoDuplicates(res[c].val)
      /\ RowsAreStored(res[c].val)
      /\ OldestFirst(res[c].val)
      /\ \A p \in RowIds(res[c].val) :
           local_user[p] # None /\ local_user[p][1].admin = TRUE

\* admins() has returned two admins created at different times while a
\* deleted admin or a non-admin is stored
C2_Witness ==
  \E c \in Callers :
    /\ Ran(c, "admins") /\ res[c].tag = "Ok"
    /\ Len(res[c].val) >= 2
    /\ res[c].val[1].person.published < res[c].val[2].person.published
    /\ res[c].val[1].id > res[c].val[2].id

(* -------------------------------- C3 ----------------------------------- *)
\* C3: read(id) returns the person row joined with the aggregate row for
\* every person that has an aggregate row, with or without a local_user
\* row, and fails with NotFound for an id without a person row or a
\* person without an aggregate row (a call the storage engine fails
\* returns the storage error).
C3_ReadJoinsPersonAndAggregates ==
  \A c \in Callers :
    (Ran(c, "read") /\ res[c].tag # "StorageError") =>
      LET id == req[c].person_id
      IN IF id \in PersonIds /\ person_aggregates[id] # None
           THEN res[c] = Ok(<<[id |-> id, person |-> person[id],
                               counts |-> person_aggregates[id][1]]>>)
           ELSE res[c] = Err("NotFound")

\* read has returned the view of a person that has no local_user row
C3_Witness ==
  \E c \in Callers :
    /\ pc[c] = "done" /\ req[c].op = "read" /\ res[c].tag = "Ok"
    /\ local_user[req[c].person_id] = None
    /\ \E p \in PersonIds : person_aggregates[p] = None

(* -------------------------------- C8 ----------------------------------- *)
\* C8: is_admin(id) returns the admin flag of the person's local_user row
\* whenever the person has one, whatever its aggregate row, deleted and
\* banned flags, and fails with NotFound when there is no such person or
\* no local_user row.
C8_IsAdminReadsLocalUser ==
  \A c \in Callers :
    (Ran(c, "is_admin") /\ res[c].tag # "StorageError") =>
      LET id == req[c].person_id
      IN IF id \in PersonIds /\ local_user[id] # None
           THEN res[c] = Ok(<<local_user[id][1].admin>>)
           ELSE res[c] = Err("NotFound")

\* is_admin has returned TRUE for a banned person without aggregate row
\* while a deleted person has a local_user row
C8_Witness ==
  \E c \in Callers :
    /\ pc[c] = "done" /\ req[c].op = "is_admin"
    /\ res[c] = Ok(<<TRUE>>)
    /\ person_aggregates[req[c].person_id] = None
    /\ person[req[c].person_id].banned
    /\ \E p \in PersonIds : person[p].deleted /\ local_user[p] # None

(* -------------------------------- C4 ----------------------------------- *)
\* t occurs in s, letter case ignored
Contains(s, t) ==
  \E i \in 1 .. (Len(s) - Len(t) + 1) :
    \A k \in 1 .. Len(t) : Lower(s[i + k - 1]) = Lower(t[k])

\* the person's name or display name contains the term; every person
\* when there is no term
Matches(p, search_term) ==
  search_term # None =>
    \/ Contains(person[p].name, search_term[1])
    \/ (person[p].display_name # None
          /\ Contains(person[p].display_name[1], search_term[1]))

\* the query returns every filtered row: default page and limit, and
\* fewer stored persons than the default limit
Unpaged(r) == r.page = None /\ r.limit = None /\ MaxPersons <= FETCH_LIMIT_DEFAULT

\* C4 as stated: the filtered set of a PersonQuery is exactly the persons
\* whose name or display name contains the term, the term's characters
\* taken literally; without a term no person is filtered out.
C4_AsStated ==
  \A c \in Callers :
    (Ran(c, "list") /\ res[c].tag = "Ok" /\ Unpaged(req[c])) =>
      RowIds(res[c].val) = {p \in PersonIds : Matches(p, req[c].search_term)}

\* C4 amended: the filtered set is exactly the persons with an aggregate
\* row whose name or display name contains the term case-insensitively,
\* wildcard characters of the term taken literally; without a term it is
\* every person with an aggregate row.
C4_SearchMatchesLiterally ==
  \A c \in Callers :
    (Ran(c, "list") /\ res[c].tag = "Ok") =>
      /\ RowIds(res[c].val) \subseteq
           {p \in PersonIds : HasAggregates(p) /\ Matches(p, req[c].search_term)}
      /\ Unpaged(req[c]) =>
           RowIds(res[c].val) =
             {p \in PersonIds : HasAggregates(p) /\ Matches(p, req[c].search_term)}

\* a search for a wildcard character has returned some persons and left
\* out a person with an aggregate row
C4_Witness ==
  \E c \in Callers :
    /\ Ran(c, "list") /\ res[c].tag = "Ok" /\ Unpaged(req[c])
    /\ req[c].search_term \in {Some(<<"%">>), Some(<<"_">>)}
    /\ res[c].val # << >>
    /\ \E p \in PersonIds : HasAggregates(p) /\ p \notin RowIds(res[c].val)

(* ----------------------------- C5 and C10 ------------------------------ *)
\* the ordering each sort directive stands for: a column, descending or not
DirectiveOrder(sort) ==
  IF sort = None THEN [col |-> "comment_score", desc |-> TRUE]
  ELSE IF sort[1] \in {"Active", "Hot", "Controversial"}
    THEN [col |-> "comment_score", desc |-> TRUE]
  ELSE IF sort[1] \in {"New", "NewComments"}
    THEN [col |-> "published", desc |-> TRUE]
  ELSE IF sort[1] = "MostComments" THEN [col |-> "comment_count", desc |-> TRUE]
  ELSE IF sort[1] = "Old" THEN [col |-> "published", desc |-> FALSE]
  ELSE [col |-> "comment_score", desc |-> TRUE]

Column(v, col) ==
  CASE col = "published" -> v.person.published
    [] col = "comment_count" -> v.counts.comment_count
    [] col = "comment_score" -> v.counts.comment_score
    [] col = "post_count" -> v.counts.post_count
    [] col = "post_score" -> v.counts.post_score

InOrder(a, b, o) ==
  IF o.desc THEN Column(a, o.col) >= Column(b, o.col)
  ELSE Column(a, o.col) <= Column(b, o.col)

SortedAs(rows, o) ==
  \A i, j \in 1 .. Len(rows) : i < j => InOrder(rows[i], rows[j], o)

\* the column and direction each person sort key orders by
KeyOrder(key) ==
  CASE key = "New" -> [col |-> "published", desc |-> TRUE]
    [] key = "Old" -> [col |-> "published", desc |-> FALSE]
    [] key = "MostComments" -> [col |-> "comment_count", desc |-> TRUE]
    [] key = "CommentScore" -> [col |-> "comment_score", desc |-> TRUE]
    [] key = "PostScore" -> [col |-> "post_score", desc |-> TRUE]
    [] key = "PostCount" -> [col |-> "post_count", desc |-> TRUE]

\* C5: the result of every PersonQuery is ordered by the key of its sort
\* directive: Active, Hot, Controversial -> comment_score descending; New,
\* NewComments -> creation time descending; MostComments -> comment_count
\* descending; Old -> creation time ascending; anything else and no
\* directive -> comment_score descending.
C5_OrderedBySortDirective ==
  \A c \in Callers :
    Ran(c, "list") =>
      /\ sort_key[c] # None
      /\ KeyOrder(sort_key[c][1]) = DirectiveOrder(req[c].sort)
      /\ res[c].tag = "Ok" => SortedAs(res[c].val, DirectiveOrder(req[c].sort))

\* a query sorted Old has returned two persons, the older one first, in
\* an order that no other sort key of the table gives
C5_Witness ==
  \E c \in Callers :
    /\ Ran(c, "list") /\ res[c].tag = "Ok"
    /\ req[c].sort = Some("Old")
    /\ Len(res[c].val) >= 2
    /\ res[c].val[1].person.published < res[c].val[2].person.published
    /\ res[c].val[1].counts.comment_score < res[c].val[2].counts.comment_score

\* C10: whatever the sort directive, the effective person sort key is one
\* of New, Old, MostComments, CommentScore; PostScore and PostCount are
\* never selected.
C10_PostKeysNeverSelected ==
  \A c \in Callers :
    Ran(c, "list") =>
      /\ sort_key[c] # None
      /\ sort_key[c][1] \in {"New", "Old", "MostComments", "CommentScore"}
      /\ sort_key[c][1] \notin {"PostScore", "PostCount"}

\* a query with a directive the match does not name has returned rows
\* whose order differs from the post_score order
C10_Witness ==
  \E c \in Callers :
    /\ Ran(c, "list") /\ res[c].tag = "Ok"
    /\ req[c].sort # None /\ req[c].sort[1] \in OtherSortTypes
    /\ sort_key[c] = Some("CommentScore")
    /\ Len(res[c].val) >= 2
    /\ res[c].val[1].counts.post_score < res[c].val[2].counts.post_score

(* -------------------------------- C6 ----------------------------------- *)
StoredView(p) ==
  [id |-> p, person |-> person[p], counts |-> person_aggregates[p][1]]

\* the persons a query selects before sorting and pagination
Filtered(r) ==
  {p \in PersonIds : HasAggregates(p) /\ Matches(p, r.search_term)}

\* every arrangement of the filtered persons in the order of the query
SortedLists(r) ==
  {s \in [1 .. Cardinality(Filtered(r)) -> Filtered(r)] :
     /\ \A i, j \in DOMAIN s : i # j => s[i] # s[j]
     /\ \A i, j \in DOMAIN s :
          i < j => InOrder(StoredView(s[i]), StoredView(s[j]), DirectiveOrder(r.sort))}

\* rows has exactly the entries of s at positions from .. to, as far
\* as s goes
IsSlice(rows, s, from, to) ==
  /\ Len(rows) = (IF Len(s) < from THEN 0 ELSE Min(to, Len(s)) - from + 1)
  /\ \A i \in 1 .. Len(rows) : rows[i] = StoredView(s[from + i - 1])

InRange(r) ==
  /\ r.page # None /\ r.page[1] >= 1
  /\ r.limit # None /\ r.limit[1] >= 1 /\ r.limit[1] <= FETCH_LIMIT_MAX

\* C6: with an in-range page p and limit l, list() returns exactly the
\* rows at positions (p-1)*l+1 .. p*l of the filtered and sorted set,
\* fewer when the set ends earlier.
C6_PageIsSliceOfSortedSet ==
  \A c \in Callers :
    (Ran(c, "list") /\ res[c].tag = "Ok" /\ InRange(req[c])) =>
      \E s \in SortedLists(req[c]) :
        IsSlice(res[c].val, s,
                (req[c].page[1] - 1) * req[c].limit[1] + 1,
                req[c].page[1] * req[c].limit[1])

\* page 2 with limit 1 has returned the second of at least two rows
C6_Witness ==
  \E c \in Callers :
    /\ Ran(c, "list") /\ res[c].tag = "Ok"
    /\ req[c].page = Some(2) /\ req[c].limit = Some(1)
    /\ req[c].sort = Some("Old")
    /\ Cardinality(Filtered(req[c])) >= 2
    /\ Len(res[c].val) = 1
    /\ \E p \in Filtered(req[c]) :
         person[p].published < res[c].val[1].person.published

(* -------------------------------- C7 ----------------------------------- *)
\* the Pagination Helper rejects the page/limit of the request
Rejected(r) ==
  \/ r.page # None /\ r.page[1] < 1
  \/ r.limit # None /\ (r.limit[1] < 1 \/ r.limit[1] > FETCH_LIMIT_MAX)

\* the number of rows a complete answer to the request has
CompleteSize(r) ==
  CASE r.op = "admins" -> Cardinality({p \in LocalAdmins : HasAggregates(p)})
    [] r.op = "banned" -> Cardinality({p \in ActiveBans : HasAggregates(p)})
    [] r.op = "list" ->
         LET l == IF r.limit = None THEN FETCH_LIMIT_DEFAULT ELSE r.limit[1]
             from == (IF r.page = None THEN 0 ELSE (r.page[1] - 1) * l) + 1
             n == Cardinality(Filtered(r))
         IN IF n < from THEN 0 ELSE Min(from + l - 1, n) - from + 1

\* C7: when the Pagination Helper rejects the page/limit, list() fails
\* with InvalidPagination and returns no rows; a list operation returns
\* either the complete filtered, sorted and paginated set or an error
\* without rows, never part of the set.
C7_InvalidPaginationOrComplete ==
  \A c \in Callers :
    /\ (Ran(c, "list") /\ Rejected(req[c])) =>
         /\ res[c] = Err("InvalidPagination")
         /\ queries[c] = 0
    /\ (Ran(c, "list") /\ res[c].tag = "InvalidPagination") => Rejected(req[c])
    /\ res[c].tag # "Ok" => res[c].val = << >>
    /\ (\E op \in {"admins", "banned", "list"} : Ran(c, op)) =>
         /\ res[c].tag \in {"Ok", "InvalidPagination", "StorageError"}
         /\ res[c].tag = "Ok" =>
              /\ Len(res[c].val) = CompleteSize(req[c])
              /\ NoDuplicates(res[c].val)
              /\ RowsAreStored(res[c].val)

\* a query with a rejected limit has failed with InvalidPagination
\* although persons match it
C7_Witness ==
  \E c \in Callers :
    /\ pc[c] = "done" /\ req[c].op = "list"
    /\ Rejected(req[c]) /\ req[c].limit = Some(FETCH_LIMIT_MAX + 1)
    /\ res[c] = Err("InvalidPagination")
    /\ Filtered(req[c]) # {}

(* -------------------------------- C9 ----------------------------------- *)
\* C9 as stated: every call acquires exactly one connection, performs
\* exactly one query on it and has released it when it returns, on every
\* exit path; no call changes stored state.
C9_AsStated ==
  /\ [](\A c \in Callers :
          pc[c] = "done" => acquired[c] = 1 /\ queries[c] = 1 /\ ~holds[c])
  /\ [][UNCHANGED db]_vars

\* C9 amended: every call acquires at most one connection and sends at
\* most one query, and holds no connection when it returns, on every exit
\* path; a call that returns a value or NotFound acquired one connection
\* and sent one query; a call that fails with InvalidPagination acquired
\* one connection and sent no query; a call that fails with StorageError
\* either acquired no connection and sent no query, or acquired one and
\* sent one; connections are neither lost nor duplicated; no call changes
\* stored state.
C9_OneConnectionAtMostOneQuery ==
  /\ [](\A c \in Callers :
          /\ acquired[c] <= 1 /\ queries[c] <= acquired[c]
          /\ holds[c] <=> pc[c] \in {"conn", "ran"}
          /\ pc[c] = "done" =>
               /\ ~holds[c]
               /\ res[c].tag \in {"Ok", "NotFound"} =>
                    acquired[c] = 1 /\ queries[c] = 1
               /\ res[c].tag = "InvalidPagination" =>
                    acquired[c] = 1 /\ queries[c] = 0
               /\ res[c].tag = "StorageError" => queries[c] = acquired[c])
  /\ [](pool + Cardinality({c \in Callers : holds[c]}) = PoolSize)
  /\ [][UNCHANGED db]_vars

\* a call has returned InvalidPagination and given its connection back
\* while the other caller holds a connection
C9_Witness ==
  \E c, d \in Callers :
    /\ c # d
    /\ pc[c] = "done" /\ res[c].tag = "InvalidPagination"
    /\ acquired[c] = 1 /\ queries[c] = 0 /\ ~holds[c]
    /\ holds[d] /\ pc[d] = "ran" /\ res[d].tag = "Ok"

====
